---- MODULE Spec2Model ----
(***************************************************************************)
(* The particle choreography engine of src/scenes/signature.js             *)
(* (setupSignature): bitmap sampler, particle store, phase state machine,  *)
(* integrator and the asynchronous rebuild / dispose protocol.             *)
(*                                                                         *)
(* Numbers are fixed point.  Time is counted in units of 0.0005 s (TQ      *)
(* units per second), lengths and speeds in thousandths of a world unit    *)
(* (PQ), Math.random() returns n/RQ for n in 0..RQ-1.  Division truncates  *)
(* towards zero.                                                           *)
(***************************************************************************)
EXTENDS Integers, Sequences, FiniteSets, TLC

TQ == 2000
PQ == 1000
RQ == 4

\* ---------------------------------------------------------------- bounds
MaxRebuilds == 2        \* rebuildTargetsFor calls, the constructor's included
MaxFrames == 2          \* animate calls
MaxCycleFrames == 9     \* animate calls of a run whose rebuild never completes
MaxDispose == 2         \* dispose calls
MaxJumps == 1           \* jumpToState calls through the handle
MaxSec == 1             \* wall-clock seconds seen by the wander noise
NStreams == 2           \* streams of Math.random() draws

\* ---------------------------------------------------------------- options
\* setupSignature(opts): the knobs, in the units of the fixed point: jitter,
\* wanderStrength, zRange and the blast speeds in 1/PQ, damping in
\* hundredths, blastDrag in 1/10000, spawnSpreadXY in tenths.  The four
\* durations are passed in opts as the defaults divided by 200, in time
\* units, so that a phase lasts a few frames.
worldSize == 16
sampleStep == 3
threshold == 180
jitter == 120
spring == 9
damping == 85
wanderStrength == 1500
zRange == 3000
wanderRange == <<100, 120>>
assembleRange == <<40, 80>>
holdSeconds == 100
disperseRange == <<40, 80>>
blastSpeedMin == 10000
blastSpeedMax == 22000
blastDrag == 9950
spawnSpreadXY == 22
spawnSpreadZ == 3

DtMin == 1
DtMax == 100

Phases == {"wander", "assemble", "hold", "disperse"}

\* ---------------------------------------------------------------- helpers
Min(a, b) == IF a < b THEN a ELSE b

Max(a, b) == IF a > b THEN a ELSE b

TDiv(a, b) == IF a >= 0 THEN a \div b ELSE -((-a) \div b)

RECURSIVE ISqrtIn(_, _, _)
\* The largest r in lo..hi with r*r <= n, by bisection.
ISqrtIn(n, lo, hi) ==
  IF lo >= hi THEN lo
  ELSE LET mid == (lo + hi + 1) \div 2
       IN IF mid * mid <= n THEN ISqrtIn(n, mid, hi) ELSE ISqrtIn(n, lo, mid - 1)

\* Math.sqrt on fixed point: the square root of n/PQ^2, in 1/PQ (n <= PQ^2).
ISqrt(n) == ISqrtIn(n, 0, PQ)

\* The n-th Math.random() draw of stream s, as a numerator over RQ.
Rnd(s, n) == (s + n * (s % 3)) % RQ

Streams == 0..(NStreams - 1)

\* randUniform(min, max) with draw r
randUniform(lo, hi, r) == lo + TDiv(r * (hi - lo), RQ)

\* hash3(i), each component in thousandths; the sine hash is tabulated for
\* the arguments the model uses.
Hash3Table ==
  [i \in {0, 1, 2, 3, 17, 18, 19, 20, 21} |->
     CASE i = 0 -> <<0, 845, 115>>
       [] i = 1 -> <<921, 940, 864>>
       [] i = 2 -> <<57, 658, 925>>
       [] i = 3 -> <<558, 195, 469>>
       [] i = 17 -> <<434, 548, 33>>
       [] i = 18 -> <<644, 730, 405>>
       [] i = 19 -> <<322, 891, 275>>
       [] i = 20 -> <<760, 518, 148>>
       [] i = 21 -> <<556, 547, 792>>]

hash3(i) == Hash3Table[i]

\* ---------------------------------------------------------------- bitmaps
\* A canvas: width W, height H, and RGBA bytes per pixel, row major.
Black == <<0, 0, 0, 255>>
White == <<255, 255, 255, 255>>
Edge == <<180, 180, 180, 0>>
Dim == <<180, 180, 179, 255>>

Canvas(px) == [W |-> 4, H |-> 4, data |-> [k \in 0..15 |-> IF k \in DOMAIN px THEN px[k] ELSE Black]]

\* makeQrCanvas(text): the external encoder, one canvas per link text.
Links == {"dark", "one", "two"}

\* opts.link
link == "two"

QrCanvas(text) ==
  CASE text = "dark" -> Canvas((1 :> White) @@ (5 :> White) @@ (3 :> Dim))
    [] text = "one" -> Canvas((0 :> Edge) @@ (2 :> White) @@ (12 :> Dim))
    [] text = "two" -> Canvas((3 :> White) @@ (12 :> Edge) @@ (4 :> White) @@ (15 :> Dim))

\* ---------------------------------------------------------------- arrays
\* Typed arrays are functions on 0..n-1; a point is a triple.
Size(a) == Cardinality(DOMAIN a)

EmptyArr == [i \in {} |-> <<0, 0, 0>>]

Push(a, v) == [i \in 0..Size(a) |-> IF i < Size(a) THEN a[i] ELSE v]

\* ---------------------------------------------------------------- sampler
\* The columns (or rows) a scan of n pixels visits: 0, step, 2*step, ...
Cols(n) == (n - 1) \div sampleStep + 1

\* The threshold test with equality excluded.
Bright_Strict(px) == px[1] + px[2] + px[3] > 3 * threshold

\* bright >= threshold for the mean of r, g and b
Bright(px) == px[1] + px[2] + px[3] >= 3 * threshold

\* The target point with the jitter added to the draw, not multiplied by it.
TargetPoint_Plus(c, x, y, rx, ry, jit) ==
  <<TDiv((2 * x - (c.W - 1)) * worldSize * PQ, 2 * (c.W - 1))
      + TDiv((2 * rx - RQ) * PQ, 2 * RQ) + jit,
    TDiv((0 - (2 * y - (c.H - 1))) * worldSize * c.H * PQ, 2 * (c.H - 1) * c.W)
      + TDiv((2 * ry - RQ) * PQ, 2 * RQ) + jit,
    0>>

\* The target point of pixel (x, y), jittered by draws rx and ry; jit is the
\* jitter option.
TargetPoint(c, x, y, rx, ry, jit) ==
  <<TDiv((2 * x - (c.W - 1)) * worldSize * PQ, 2 * (c.W - 1))
      + TDiv((2 * rx - RQ) * jit, 2 * RQ),
    TDiv((0 - (2 * y - (c.H - 1))) * worldSize * c.H * PQ, 2 * (c.H - 1) * c.W)
      + TDiv((2 * ry - RQ) * jit, 2 * RQ),
    0>>

RECURSIVE Scan(_, _, _, _, _)
\* The scan from sample cell k on, rows outermost; each kept pixel takes the
\* next two draws of stream rs.
Scan(c, k, rs, pts, jit) ==
  IF k >= Cols(c.W) * Cols(c.H) THEN pts
  ELSE LET x == (k % Cols(c.W)) * sampleStep
           y == (k \div Cols(c.W)) * sampleStep
           n == Size(pts)
       IN IF Bright(c.data[y * c.W + x])
          THEN Scan(c, k + 1, rs,
                    Push(pts, TargetPoint(c, x, y, Rnd(rs, 2 * n), Rnd(rs, 2 * n + 1), jit)),
                    jit)
          ELSE Scan(c, k + 1, rs, pts, jit)

\* sampleQrTargets(canvas, {jitter}) with the draws of stream rs.
sampleQrTargets(c, rs, jit) == Scan(c, 0, rs, EmptyArr, jit)

\* ---------------------------------------------------------------- store
\* createParticles for target array tg; draws start at offset off.
SpawnPos(i) ==
  LET r == hash3(i)
  IN <<TDiv((r[1] - 500) * worldSize * spawnSpreadXY, 10),
       TDiv((r[2] - 500) * worldSize * spawnSpreadXY, 10),
       TDiv((r[3] - 500) * 2 * zRange * spawnSpreadZ, 1000)>>

SpawnVel(rs, off, i) ==
  <<TDiv((2 * Rnd(rs, off + 3 * i) - RQ) * 150, 2 * RQ),
    TDiv((2 * Rnd(rs, off + 3 * i + 1) - RQ) * 150, 2 * RQ),
    TDiv((2 * Rnd(rs, off + 3 * i + 2) - RQ) * 150, 2 * RQ)>>

\* createParticles with the velocity array allocated for N floats, not 3N.
createParticles_Short(tg, rs, off) ==
  LET N == Size(tg)
  IN [positions |-> [i \in 0..(N - 1) |-> SpawnPos(i)],
      velocities |-> [i \in 0..(N \div 3 - 1) |-> SpawnVel(rs, off, i)],
      targetIndexMap |-> [i \in 0..(N - 1) |-> i]]

\* createParticles with the identity map written back to front.
createParticles_Rev(tg, rs, off) ==
  LET N == Size(tg)
  IN [positions |-> [i \in 0..(N - 1) |-> SpawnPos(i)],
      velocities |-> [i \in 0..(N - 1) |-> SpawnVel(rs, off, i)],
      targetIndexMap |-> [i \in 0..(N - 1) |-> N - 1 - i]]

createParticles(tg, rs, off) ==
  LET N == Size(tg)
  IN [positions |-> [i \in 0..(N - 1) |-> SpawnPos(i)],
      velocities |-> [i \in 0..(N - 1) |-> SpawnVel(rs, off, i)],
      targetIndexMap |-> [i \in 0..(N - 1) |-> i]]

\* ---------------------------------------------------------------- phases
\* The transition table with disperse leading back to assemble.
NextPhase_Skip(p) ==
  CASE p = "wander" -> "assemble"
    [] p = "assemble" -> "hold"
    [] p = "hold" -> "disperse"
    [] p = "disperse" -> "assemble"

NextPhase(p) ==
  CASE p = "wander" -> "assemble"
    [] p = "assemble" -> "hold"
    [] p = "hold" -> "disperse"
    [] p = "disperse" -> "wander"

\* cos and sin of 2*pi*u for the draws u = n/RQ (quarter turns), in 1/PQ.
CosTurn(n) == CASE n = 0 -> PQ [] n = 1 -> 0 [] n = 2 -> 0 - PQ [] n = 3 -> 0

SinTurn(n) == CASE n = 0 -> 0 [] n = 1 -> PQ [] n = 2 -> 0 [] n = 3 -> 0 - PQ

\* The blast with the speed drawn from [0, blastSpeedMax].
BlastVel_FromZero(u, v, w) ==
  LET z == TDiv((2 * v - RQ) * PQ, RQ)
      r == ISqrt(PQ * PQ - z * z)
      dirx == TDiv(r * CosTurn(u), PQ)
      diry == TDiv(r * SinTurn(u), PQ)
      speed == randUniform(0, blastSpeedMax, w)
  IN <<TDiv(dirx * speed, PQ), TDiv(diry * speed, PQ), TDiv(z * speed, PQ)>>

\* The blast velocity of one particle from draws u, v and the speed draw.
BlastVel(u, v, w) ==
  LET z == TDiv((2 * v - RQ) * PQ, RQ)
      r == ISqrt(PQ * PQ - z * z)
      dirx == TDiv(r * CosTurn(u), PQ)
      diry == TDiv(r * SinTurn(u), PQ)
      speed == randUniform(blastSpeedMin, blastSpeedMax, w)
  IN <<TDiv(dirx * speed, PQ), TDiv(diry * speed, PQ), TDiv(z * speed, PQ)>>

\* The duration branches with wander taking the assemble range.
phaseDuration_Swap(next, r) ==
  CASE next = "wander" -> randUniform(assembleRange[1], assembleRange[2], r)
    [] next = "assemble" -> randUniform(assembleRange[1], assembleRange[2], r)
    [] next = "hold" -> holdSeconds
    [] next = "disperse" -> randUniform(disperseRange[1], disperseRange[2], r)

\* The stateDuration jumpToState(next) sets, r the draw of randUniform.
phaseDuration(next, r) ==
  CASE next = "wander" -> randUniform(wanderRange[1], wanderRange[2], r)
    [] next = "assemble" -> randUniform(assembleRange[1], assembleRange[2], r)
    [] next = "hold" -> holdSeconds
    [] next = "disperse" -> randUniform(disperseRange[1], disperseRange[2], r)

\* jumpToState that also stops every particle on entry to hold.
jumpToState_Settle(next, tg, vel, has, rs, off) ==
  LET N == Size(tg)
  IN [state |-> next,
      stateTime |-> 0,
      stateDuration |-> phaseDuration(next, Rnd(rs, off)),
      velocities |->
        IF next = "disperse"
        THEN [i \in DOMAIN vel |->
                IF i < N
                THEN BlastVel(Rnd(rs, off + 1 + 3 * i), Rnd(rs, off + 2 + 3 * i),
                              Rnd(rs, off + 3 + 3 * i))
                ELSE vel[i]]
        ELSE IF next = "hold" THEN [i \in DOMAIN vel |-> <<0, 0, 0>>]
        ELSE vel,
      fault |-> next = "disperse" /\ N > 0 /\ ~has]

\* jumpToState(next) on phase state and velocities; tg is the target array,
\* has whether the velocity array exists, draws start at offset off.
\* Writing velocities of a missing array is a TypeError (fault).
jumpToState(next, tg, vel, has, rs, off) ==
  LET N == Size(tg)
  IN [state |-> next,
      stateTime |-> 0,
      stateDuration |-> phaseDuration(next, Rnd(rs, off)),
      velocities |->
        IF next = "disperse"
        THEN [i \in DOMAIN vel |->
                IF i < N
                THEN BlastVel(Rnd(rs, off + 1 + 3 * i), Rnd(rs, off + 2 + 3 * i),
                              Rnd(rs, off + 3 + 3 * i))
                ELSE vel[i]]
        ELSE vel,
      fault |-> next = "disperse" /\ N > 0 /\ ~has]

\* advanceState with the timer assigned dt instead of advanced by it.
advanceState_Assign(ph, dt, tg, vel, has, rs) ==
  IF dt < ph.stateDuration
  THEN [state |-> ph.state, stateTime |-> dt,
        stateDuration |-> ph.stateDuration, velocities |-> vel, fault |-> FALSE]
  ELSE jumpToState(NextPhase(ph.state), tg, vel, has, rs, 0)

\* advanceState that returns while stateTime <= stateDuration.
advanceState_Late(ph, dt, tg, vel, has, rs) ==
  IF ph.stateTime + dt <= ph.stateDuration
  THEN [state |-> ph.state, stateTime |-> ph.stateTime + dt,
        stateDuration |-> ph.stateDuration, velocities |-> vel, fault |-> FALSE]
  ELSE jumpToState(NextPhase(ph.state), tg, vel, has, rs, 0)

\* advanceState with the overshoot of the timer carried into the next phase.
advanceState_Carry(ph, dt, tg, vel, has, rs) ==
  IF ph.stateTime + dt < ph.stateDuration
  THEN [state |-> ph.state, stateTime |-> ph.stateTime + dt,
        stateDuration |-> ph.stateDuration, velocities |-> vel, fault |-> FALSE]
  ELSE LET j == jumpToState(NextPhase(ph.state), tg, vel, has, rs, 0)
       IN [j EXCEPT !.stateTime = ph.stateTime + dt - ph.stateDuration]

\* advanceState(dt) on the phase state ph = [state, stateTime, stateDuration].
advanceState(ph, dt, tg, vel, has, rs) ==
  IF ph.stateTime + dt < ph.stateDuration
  THEN [state |-> ph.state, stateTime |-> ph.stateTime + dt,
        stateDuration |-> ph.stateDuration, velocities |-> vel, fault |-> FALSE]
  ELSE jumpToState(NextPhase(ph.state), tg, vel, has, rs, 0)

\* ---------------------------------------------------------------- integrator
RECURSIVE PowQ(_, _)
\* Math.pow(b, e) for a whole exponent e >= 1, b and the result in 1/10000.
PowQ(b, e) == IF e <= 1 THEN b ELSE TDiv(b * PowQ(b, e - 1), 10000)

\* The drag factor without the floor of the exponent at 1: below one frame of
\* 1/60 s the factor rises towards 1 (to first order in the exponent).
dragPow_NoFloor(dt) ==
  IF dt * 60 >= TQ THEN PowQ(blastDrag, (dt * 60) \div TQ)
  ELSE 10000 - ((10000 - blastDrag) * dt * 60) \div TQ

\* Math.pow(blastDrag, Math.max(1, dt * 60)); dt * 60 is whole or below 1
\* for every step the model takes.
dragPow(dt) == PowQ(blastDrag, Max(1, (dt * 60) \div TQ))

Add3(p, v, dt) ==
  <<p[1] + TDiv(v[1] * dt, TQ), p[2] + TDiv(v[2] * dt, TQ), p[3] + TDiv(v[3] * dt, TQ)>>

\* The velocity update with the spring branch missing its damping factor.
StepVel_NoDamp(st, dt, p, v, t, i, sec) ==
  IF st = "assemble" \/ st = "hold"
  THEN <<v[1] + TDiv((t[1] - p[1]) * spring * dt, TQ),
         v[2] + TDiv((t[2] - p[2]) * spring * dt, TQ),
         v[3] + TDiv((t[3] - p[3]) * spring * dt, TQ)>>
  ELSE IF st = "disperse"
  THEN <<TDiv(v[1] * dragPow(dt), 10000), TDiv(v[2] * dragPow(dt), 10000),
         TDiv(v[3] * dragPow(dt), 10000)>>
  ELSE LET r == hash3(i * 17 + ((sec + i) % 1000))
       IN <<TDiv(v[1] * 98, 100) + TDiv((r[1] - 500) * wanderStrength * dt, 1000 * TQ),
            TDiv(v[2] * 98, 100) + TDiv((r[2] - 500) * wanderStrength * dt, 1000 * TQ),
            TDiv(v[3] * 98, 100)
              + TDiv((r[3] - 500) * TDiv(wanderStrength * 6, 10) * dt, 1000 * TQ)>>

\* The velocity update without the disperse branch: a blasted particle
\* takes the wander noise.
StepVel_NoDisperse(st, dt, p, v, t, i, sec) ==
  IF st = "assemble" \/ st = "hold"
  THEN <<TDiv(v[1] * damping, 100) + TDiv((t[1] - p[1]) * spring * dt, TQ),
         TDiv(v[2] * damping, 100) + TDiv((t[2] - p[2]) * spring * dt, TQ),
         TDiv(v[3] * damping, 100) + TDiv((t[3] - p[3]) * spring * dt, TQ)>>
  ELSE LET r == hash3(i * 17 + ((sec + i) % 1000))
       IN <<TDiv(v[1] * 98, 100) + TDiv((r[1] - 500) * wanderStrength * dt, 1000 * TQ),
            TDiv(v[2] * 98, 100) + TDiv((r[2] - 500) * wanderStrength * dt, 1000 * TQ),
            TDiv(v[3] * 98, 100)
              + TDiv((r[3] - 500) * TDiv(wanderStrength * 6, 10) * dt, 1000 * TQ)>>

\* The new velocity of particle i: p, v its position and velocity, t its
\* target, sec the whole seconds of performance.now().
StepVel(st, dt, p, v, t, i, sec) ==
  IF st = "assemble" \/ st = "hold"
  THEN <<TDiv(v[1] * damping, 100) + TDiv((t[1] - p[1]) * spring * dt, TQ),
         TDiv(v[2] * damping, 100) + TDiv((t[2] - p[2]) * spring * dt, TQ),
         TDiv(v[3] * damping, 100) + TDiv((t[3] - p[3]) * spring * dt, TQ)>>
  ELSE IF st = "disperse"
  THEN <<TDiv(v[1] * dragPow(dt), 10000), TDiv(v[2] * dragPow(dt), 10000),
         TDiv(v[3] * dragPow(dt), 10000)>>
  ELSE LET r == hash3(i * 17 + ((sec + i) % 1000))
           vz == TDiv(v[3] * 98, 100)
                   + TDiv((r[3] - 500) * TDiv(wanderStrength * 6, 10) * dt, 1000 * TQ)
           vz1 == IF p[3] > zRange THEN vz - TDiv((p[3] - zRange) * dt, 2 * TQ) ELSE vz
           vz2 == IF p[3] < 0 - zRange THEN vz1 + TDiv((0 - zRange - p[3]) * dt, 2 * TQ) ELSE vz1
       IN <<TDiv(v[1] * 98, 100) + TDiv((r[1] - 500) * wanderStrength * dt, 1000 * TQ),
            TDiv(v[2] * 98, 100) + TDiv((r[2] - 500) * wanderStrength * dt, 1000 * TQ),
            vz2>>

\* Whether the loop of stepParticles reads outside an array.
StepFault(tg, pos, vel, tim) ==
  \E i \in 0..(Size(tg) - 1) :
     \/ i \notin DOMAIN pos
     \/ i \notin DOMAIN vel
     \/ i \notin DOMAIN tim
     \/ tim[i] \notin DOMAIN tg

\* stepParticles without `if (!points) return`: with no geometry, the write
\* of geometry.attributes after the loop throws.
stepParticles_NoGuard(st, dt, tg, pos, vel, tim, has, sec) ==
  IF StepFault(tg, pos, vel, tim)
  THEN [positions |-> pos, velocities |-> vel, fault |-> TRUE]
  ELSE LET N == Size(tg)
           nv == [i \in DOMAIN vel |->
                    IF i < N THEN StepVel(st, dt, pos[i], vel[i], tg[tim[i]], i, sec)
                    ELSE vel[i]]
       IN [positions |-> [i \in DOMAIN pos |-> IF i < N THEN Add3(pos[i], nv[i], dt) ELSE pos[i]],
           velocities |-> nv,
           fault |-> ~has]

\* stepParticles that writes back all particles but the last one.
stepParticles_Cull(st, dt, tg, pos, vel, tim, has, sec) ==
  IF ~has THEN [positions |-> pos, velocities |-> vel, fault |-> FALSE]
  ELSE IF StepFault(tg, pos, vel, tim)
  THEN [positions |-> pos, velocities |-> vel, fault |-> TRUE]
  ELSE LET N == Size(tg)
           nv == [i \in 0..(N - 2) |-> StepVel(st, dt, pos[i], vel[i], tg[tim[i]], i, sec)]
       IN [positions |-> [i \in 0..(N - 2) |-> Add3(pos[i], nv[i], dt)],
           velocities |-> nv,
           fault |-> FALSE]

\* stepParticles(dt): has is whether points exists.
stepParticles(st, dt, tg, pos, vel, tim, has, sec) ==
  IF ~has THEN [positions |-> pos, velocities |-> vel, fault |-> FALSE]
  ELSE IF StepFault(tg, pos, vel, tim)
  THEN [positions |-> pos, velocities |-> vel, fault |-> TRUE]
  ELSE LET N == Size(tg)
           nv == [i \in DOMAIN vel |->
                    IF i < N THEN StepVel(st, dt, pos[i], vel[i], tg[tim[i]], i, sec)
                    ELSE vel[i]]
       IN [positions |-> [i \in DOMAIN pos |-> IF i < N THEN Add3(pos[i], nv[i], dt) ELSE pos[i]],
           velocities |-> nv,
           fault |-> FALSE]

\* The clamp with an upper limit of 0.5 s.
Clamp_Wide(raw) == Min(10 * DtMax, Max(DtMin, raw))

\* The step of a frame: t - lastT clamped.
Clamp(raw) == Min(DtMax, Max(DtMin, raw))

\* The raw frame deltas t - lastT the driver supplies, in time units:
\* -5 s, 0, 0.0005 s, 0.01 s, 0.05 s, 1000 s.
RawDeltas == {0 - 10000, 0, 20, 100, 2000000}

Secs == 0..MaxSec

\* ---------------------------------------------------------------- state
VARIABLES
  disposed,        \* the disposed flag
  targets,         \* the target points
  state,           \* the phase
  stateTime,       \* elapsed time of the phase
  stateDuration,   \* duration of the phase
  points,          \* 0 while undefined, else the ordinal of the Points object
  positions,
  velocities,
  targetIndexMap,
  inScene,         \* the Points objects the scene holds
  pending,         \* rebuildTargetsFor calls waiting on makeQrCanvas
  nReq,            \* rebuildTargetsFor calls so far
  lastRebuild,     \* how the latest finished rebuild ended
  lastLink,        \* the link text of the latest committed rebuild
  fault,           \* a handler threw or read outside an array
  frames,          \* animate calls so far
  nDispose,        \* dispose calls so far
  nJumps,          \* jumpToState calls through the handle so far
  acc,             \* clamped tick time since the latest entry not made by a tick
  startPhase,      \* the phase of that entry
  nTrans,          \* tick-driven transitions since that entry
  blast,           \* the velocities as the latest entry into disperse left them
  \* main.js, the scene switcher
  currentSceneIndex,
  activeScene,     \* the id of the scene whose bundle is active
  transitioning,
  nextBundle,      \* 0 while null, else the id of the scene the bundle was built from
  nextSceneId,     \* 0 while null
  transitionStart,
  elapsedTime,     \* what clock.getElapsedTime() returns
  cycling,
  cycleTimeout,    \* 0 while no timer is pending, else the time it fires at
  \* setupCube, the pool of solids
  pool,            \* per slot, the isActive flag and the mesh's visible flag
  active,          \* the slots animated, by their index in pool
  globalTime,
  spin,            \* a loop of ensureActiveCount ran without making progress
  \* setupSkyscraper, the grid of buildings
  occupied,        \* the cells marked occupied
  skyscrapers,     \* per slot, a building or null
  rotationY,       \* rotatingGroup.rotation.y, modulo a full turn
  recycled,        \* the slots whose building was despawned so far
  \* setupCorridor, the trench
  segments,        \* position.z of each segment
  camZ

engine == <<disposed, targets, state, stateTime, stateDuration, points, positions,
            velocities, targetIndexMap, inScene, pending, nReq, lastRebuild,
            lastLink, fault, frames, nDispose, nJumps, acc, startPhase, nTrans, blast>>

switcher == <<currentSceneIndex, activeScene, transitioning, nextBundle, nextSceneId,
              transitionStart, elapsedTime, cycling, cycleTimeout>>

solids == <<pool, active, globalTime, spin>>

city == <<occupied, skyscrapers, rotationY, recycled>>

trench == <<segments, camZ>>

vars == <<engine, switcher, solids, city, trench>>

\* main.js as loaded: scene 1 active, no transition, no auto-cycle.
InitSwitcher ==
  /\ currentSceneIndex = 0
  /\ activeScene = 1
  /\ transitioning = FALSE
  /\ nextBundle = 0
  /\ nextSceneId = 0
  /\ transitionStart = 0
  /\ elapsedTime = 0
  /\ cycling = FALSE
  /\ cycleTimeout = 0

\* The scenes that are not set up hold nothing.
NoSolids == pool = <<>> /\ active = <<>> /\ globalTime = 0 /\ spin = FALSE

NoCity == occupied = {} /\ skyscrapers = <<>> /\ rotationY = 0 /\ recycled = {}

NoTrench == segments = <<>> /\ camZ = 0

\* A run of the signature scene alone: the switcher stays as loaded.
EngineAlone == InitSwitcher /\ NoSolids /\ NoCity /\ NoTrench

store == <<targets, positions, velocities, targetIndexMap>>

phase == <<state, stateTime, stateDuration>>

\* setupSignature(opts): the state after construction, for each opts.link
\* and each first wander duration; the constructor's rebuild is pending.
InitEngine ==
  /\ disposed = FALSE
  /\ targets = EmptyArr
  /\ state = "wander"
  /\ stateTime = 0
  /\ \E rs \in Streams : stateDuration = randUniform(wanderRange[1], wanderRange[2], Rnd(rs, 0))
  /\ points = 0
  /\ positions = EmptyArr
  /\ velocities = EmptyArr
  /\ targetIndexMap = EmptyArr
  /\ inScene = {}
  /\ pending = {[id |-> 1, link |-> link]}
  /\ nReq = 1
  /\ lastRebuild = "none"
  /\ lastLink = "none"
  /\ fault = FALSE
  /\ frames = 0
  /\ nDispose = 0
  /\ nJumps = 0
  /\ acc = 0
  /\ startPhase = "wander"
  /\ nTrans = 0
  /\ blast = EmptyArr

Init == InitEngine /\ EngineAlone

\* The signature scene not set up: no store, no request, no frame.
NoEngine ==
  /\ disposed = FALSE
  /\ targets = EmptyArr
  /\ state = "wander"
  /\ stateTime = 0
  /\ stateDuration = 0
  /\ points = 0
  /\ positions = EmptyArr
  /\ velocities = EmptyArr
  /\ targetIndexMap = EmptyArr
  /\ inScene = {}
  /\ pending = {}
  /\ nReq = 0
  /\ lastRebuild = "none"
  /\ lastLink = "none"
  /\ fault = FALSE
  /\ frames = 0
  /\ nDispose = 0
  /\ nJumps = 0
  /\ acc = 0
  /\ startPhase = "wander"
  /\ nTrans = 0
  /\ blast = EmptyArr

\* A setLink that drops the old targets when the request is made.
SetLink_Clear(l) ==
  /\ nReq < MaxRebuilds
  /\ pending' = pending \cup {[id |-> nReq + 1, link |-> l]}
  /\ nReq' = nReq + 1
  /\ targets' = EmptyArr
  /\ UNCHANGED <<disposed, positions, velocities, targetIndexMap, phase, points,
                 inScene, lastRebuild, lastLink,
                 fault, frames, nDispose, nJumps, acc, startPhase, nTrans, blast>>

\* setLink(newLink): rebuildTargetsFor up to its await.
SetLink(l) ==
  /\ nReq < MaxRebuilds
  /\ pending' = pending \cup {[id |-> nReq + 1, link |-> l]}
  /\ nReq' = nReq + 1
  /\ UNCHANGED <<disposed, store, phase, points, inScene, lastRebuild, lastLink,
                 fault, frames, nDispose, nJumps, acc, startPhase, nTrans, blast>>

\* A failing rebuild that has already dropped the old targets and restarted
\* the phase.
RebuildFailed_Reset(req) ==
  /\ req \in pending
  /\ pending' = pending \ {req}
  /\ lastRebuild' = "failed"
  /\ targets' = EmptyArr
  /\ state' = "wander"
  /\ stateTime' = 0
  /\ UNCHANGED <<disposed, positions, velocities, targetIndexMap, stateDuration,
                 points, inScene, nReq, lastLink,
                 fault, frames, nDispose, nJumps, acc, startPhase, nTrans, blast>>

\* rebuildTargetsFor: makeQrCanvas rejects (the library does not load, or
\* leaves no canvas); the await throws and the call ends.
RebuildFailed(req) ==
  /\ req \in pending
  /\ pending' = pending \ {req}
  /\ lastRebuild' = "failed"
  /\ UNCHANGED <<disposed, store, phase, points, inScene, nReq, lastLink,
                 fault, frames, nDispose, nJumps, acc, startPhase, nTrans, blast>>

\* The guard without the flag.
disposedGuard_Off == FALSE

\* if (disposed) return;
disposedGuard == disposed

\* A rebuild that keeps the particle arrays of an earlier result and replaces
\* the targets alone.
Rebuild_KeepParticles(req, rs, jit) ==
  /\ req \in pending
  /\ pending' = pending \ {req}
  /\ IF disposedGuard
     THEN /\ lastRebuild' = "discarded"
          /\ UNCHANGED <<store, phase, points, inScene, lastLink, fault,
                         acc, startPhase, nTrans, blast>>
     ELSE LET tg == sampleQrTargets(QrCanvas(req.link), rs, jit)
              K == Size(tg)
              ps == IF points # 0
                    THEN [positions |-> positions, velocities |-> velocities,
                          targetIndexMap |-> targetIndexMap]
                    ELSE createParticles(tg, rs, 2 * K)
              j == jumpToState("wander", tg, ps.velocities, TRUE, rs, 5 * K)
          IN /\ targets' = tg
             /\ positions' = ps.positions
             /\ velocities' = j.velocities
             /\ targetIndexMap' = ps.targetIndexMap
             /\ points' = points + 1
             /\ inScene' = (inScene \ {points}) \cup {points + 1}
             /\ state' = j.state
             /\ stateTime' = j.stateTime
             /\ stateDuration' = j.stateDuration
             /\ fault' = (fault \/ j.fault)
             /\ lastRebuild' = "ok"
             /\ lastLink' = req.link
             /\ acc' = 0
             /\ startPhase' = "wander"
             /\ nTrans' = 0
             /\ blast' = blast
  /\ UNCHANGED <<disposed, nReq, frames, nDispose, nJumps>>

\* rebuildTargetsFor after its await, in a run whose jitter option is jit:
\* the canvas of req has arrived.
Rebuild(req, rs, jit) ==
  /\ req \in pending
  /\ pending' = pending \ {req}
  /\ IF disposedGuard
     THEN /\ lastRebuild' = "discarded"
          /\ UNCHANGED <<store, phase, points, inScene, lastLink, fault,
                         acc, startPhase, nTrans, blast>>
     ELSE LET tg == sampleQrTargets(QrCanvas(req.link), rs, jit)
              K == Size(tg)
              ps == createParticles(tg, rs, 2 * K)
              j == jumpToState("wander", tg, ps.velocities, TRUE, rs, 5 * K)
          IN /\ targets' = tg
             /\ positions' = ps.positions
             /\ velocities' = j.velocities
             /\ targetIndexMap' = ps.targetIndexMap
             /\ points' = points + 1
             /\ inScene' = (inScene \ {points}) \cup {points + 1}
             /\ state' = j.state
             /\ stateTime' = j.stateTime
             /\ stateDuration' = j.stateDuration
             /\ fault' = (fault \/ j.fault)
             /\ lastRebuild' = "ok"
             /\ lastLink' = req.link
             /\ acc' = 0
             /\ startPhase' = "wander"
             /\ nTrans' = 0
             /\ blast' = blast
  /\ UNCHANGED <<disposed, nReq, frames, nDispose, nJumps>>

\* rebuildTargetsFor after its await, with the jitter of the options.
RebuildDone(req, rs) == Rebuild(req, rs, jitter)

\* A setPhase that assigns the phase only: the timer runs on, the duration
\* stays, no blast.
SetPhase_Bare(p, rs) ==
  /\ nJumps < MaxJumps
  /\ state' = p
  /\ acc' = 0
  /\ startPhase' = p
  /\ nTrans' = 0
  /\ UNCHANGED <<disposed, store, stateTime, stateDuration, points, inScene,
                 pending, nReq, lastRebuild, lastLink, fault, frames, nDispose, blast>>
  /\ nJumps' = nJumps + 1

\* jumpToState(p) called through the returned handle.
SetPhase(p, rs) ==
  LET j == jumpToState(p, targets, velocities, points # 0, rs, 0)
  IN /\ nJumps < MaxJumps
     /\ state' = j.state
     /\ stateTime' = j.stateTime
     /\ stateDuration' = j.stateDuration
     /\ velocities' = j.velocities
     /\ fault' = (fault \/ j.fault)
     /\ acc' = 0
     /\ startPhase' = p
     /\ nTrans' = 0
     /\ blast' = IF p = "disperse" THEN j.velocities ELSE blast
     /\ UNCHANGED <<disposed, targets, positions, targetIndexMap, points, inScene,
                    pending, nReq, lastRebuild, lastLink, frames, nDispose>>
     /\ nJumps' = nJumps + 1

\* The two calls of a frame in the other order: the particles are integrated
\* under the old phase, then the timer is advanced.
tick_StepFirst(dt, sec, rs) ==
  LET ph == [state |-> state, stateTime |-> stateTime, stateDuration |-> stateDuration]
      stp == stepParticles(state, dt, targets, positions, velocities,
                           targetIndexMap, points # 0, sec)
      adv == advanceState(ph, dt, targets, stp.velocities, points # 0, rs)
  IN [state |-> adv.state,
      stateTime |-> adv.stateTime,
      stateDuration |-> adv.stateDuration,
      positions |-> stp.positions,
      velocities |-> adv.velocities,
      fault |-> (fault \/ adv.fault \/ stp.fault),
      moved |-> stateTime + dt >= stateDuration,
      entry |-> adv.velocities]

\* advanceState(dt) then stepParticles(dt) on the current state, for a step
\* of dt; stepParticles does not run when advanceState threw.
tick(dt, sec, rs) ==
  LET ph == [state |-> state, stateTime |-> stateTime, stateDuration |-> stateDuration]
      adv == advanceState(ph, dt, targets, velocities, points # 0, rs)
      stp == stepParticles(adv.state, dt, targets, positions, adv.velocities,
                           targetIndexMap, points # 0, sec)
  IN [state |-> adv.state,
      stateTime |-> adv.stateTime,
      stateDuration |-> adv.stateDuration,
      positions |-> IF adv.fault THEN positions ELSE stp.positions,
      velocities |-> IF adv.fault THEN adv.velocities ELSE stp.velocities,
      fault |-> (fault \/ adv.fault \/ stp.fault),
      moved |-> stateTime + dt >= stateDuration,
      entry |-> adv.velocities]

\* animate() on the current state when t - lastT is raw.
animate(raw, sec, rs) == tick(Clamp(raw), sec, rs)

\* animate(): one frame.
Animate(raw, sec, rs) ==
  LET r == animate(raw, sec, rs)
  IN /\ state' = r.state
     /\ stateTime' = r.stateTime
     /\ stateDuration' = r.stateDuration
     /\ positions' = r.positions
     /\ velocities' = r.velocities
     /\ fault' = r.fault
     /\ acc' = acc + Clamp(raw)
     /\ nTrans' = IF r.moved THEN nTrans + 1 ELSE nTrans
     /\ blast' = IF r.moved /\ r.state = "disperse" THEN r.entry ELSE blast
     /\ frames' = frames + 1
     /\ UNCHANGED <<disposed, targets, targetIndexMap, points, inScene, pending,
                    nReq, lastRebuild, lastLink, nDispose, nJumps, startPhase>>

\* dispose() that also releases the particle arrays.
Dispose_Free ==
  /\ nDispose < MaxDispose
  /\ disposed' = TRUE
  /\ inScene' = IF points # 0 THEN inScene \ {points} ELSE inScene
  /\ nDispose' = nDispose + 1
  /\ positions' = EmptyArr
  /\ velocities' = EmptyArr
  /\ UNCHANGED <<targets, targetIndexMap, phase, points, pending, nReq, lastRebuild,
                 lastLink, fault, frames, nJumps, acc, startPhase, nTrans, blast>>

\* dispose()
Dispose ==
  /\ nDispose < MaxDispose
  /\ disposed' = TRUE
  /\ inScene' = IF points # 0 THEN inScene \ {points} ELSE inScene
  /\ nDispose' = nDispose + 1
  /\ UNCHANGED <<store, phase, points, pending, nReq, lastRebuild, lastLink,
                 fault, frames, nJumps, acc, startPhase, nTrans, blast>>

\* While the signature scene runs alone nothing else moves.
Alone == UNCHANGED <<switcher, solids, city, trench>>

Next ==
  \/ Alone /\ \E l \in Links : SetLink(l)
  \/ Alone /\ \E req \in pending : RebuildFailed(req)
  \/ Alone /\ \E req \in pending, rs \in Streams : RebuildDone(req, rs)
  \/ Alone /\ \E p \in Phases, rs \in Streams : SetPhase(p, rs)
  \/ Alone /\ frames < MaxFrames /\ \E raw \in RawDeltas, sec \in Secs, rs \in Streams : Animate(raw, sec, rs)
  \/ Alone /\ Dispose

Spec == Init /\ [][Next]_vars

\* The phase machine alone: the constructor's rebuild stays pending, so no
\* store exists and frames only move the timer.
NextCycle ==
  \/ Alone /\ \E p \in Phases, rs \in Streams : SetPhase(p, rs)
  \/ Alone /\ frames < MaxCycleFrames /\ \E raw \in RawDeltas, sec \in Secs, rs \in Streams : Animate(raw, sec, rs)

SpecCycle == Init /\ [][NextCycle]_vars

\* The velocities a spring run starts particle 1 with: at rest, a drift, and
\* 17 units/s towards and away from the far corner.
Kicks == {<<0, 0, 0>>, <<0, 0 - 75, 75>>, <<10000, 10000, 10000>>,
          <<0 - 10000, 0 - 10000, 0 - 10000>>}

\* The fixed steps of a spring run: 0.01 s and 0.05 s.
SpringSteps == {TQ \div 100, TQ \div 20}

\* A run with the durations of the source, 200 times those of the options
\* above (an assemble of 7 s, a hold of 10 s), right after its first rebuild
\* and a jumpToState to assemble or hold: particle 0 at rest, particle 1 with
\* any of Kicks.
InitSpring ==
  \E rs \in Streams, p \in {"assemble", "hold"}, k \in Kicks :
     LET tg == sampleQrTargets(QrCanvas(link), rs, jitter)
         ps == createParticles(tg, rs, 2 * Size(tg))
     IN /\ disposed = FALSE
        /\ targets = tg
        /\ state = p
        /\ stateTime = 0
        /\ stateDuration = 200 * phaseDuration(p, RQ - 1)
        /\ points = 1
        /\ positions = ps.positions
        /\ velocities = [i \in DOMAIN ps.velocities |-> IF i = 0 THEN <<0, 0, 0>> ELSE k]
        /\ targetIndexMap = ps.targetIndexMap
        /\ inScene = {1}
        /\ pending = {}
        /\ nReq = 1
        /\ lastRebuild = "ok"
        /\ lastLink = link
        /\ fault = FALSE
        /\ frames = 0
        /\ nDispose = 0
        /\ nJumps = 1
        /\ acc = 0
        /\ startPhase = p
        /\ nTrans = 0
        /\ blast = EmptyArr
        /\ EngineAlone

\* The frames of that one phase, all with the same delta.
NextSpring ==
  \E raw \in SpringSteps :
     /\ stateTime + raw < stateDuration
     /\ acc = frames * raw
     /\ Animate(raw, 0, 0)
     /\ Alone

SpecSpring == InitSpring /\ [][NextSpring]_vars

\* A run constructed with jitter: 0: requests, their canvases arriving or
\* failing, frames and dispose.
NextSampler ==
  \/ Alone /\ \E l \in Links : SetLink(l)
  \/ Alone /\ \E req \in pending : RebuildFailed(req)
  \/ Alone /\ \E req \in pending, rs \in Streams : Rebuild(req, rs, 0)
  \/ Alone /\ frames < MaxFrames /\ \E raw \in RawDeltas, sec \in Secs, rs \in Streams : Animate(raw, sec, rs)
  \/ Alone /\ Dispose

SpecSampler == Init /\ [][NextSampler]_vars

\* ---------------------------------------------------------------- claims
\* The pixels a scan with stride sampleStep keeps, counted from the canvas.
KeptPixels(c) ==
  Cardinality({xy \in (0..(c.W - 1)) \X (0..(c.H - 1)) :
                 /\ xy[1] % sampleStep = 0
                 /\ xy[2] % sampleStep = 0
                 /\ Bright(c.data[xy[2] * c.W + xy[1]])})

\* A rebuild result arrives: a pending call leaves its await with a canvas.
CanvasArrives == Cardinality(pending') < Cardinality(pending) /\ lastRebuild' # "failed"

\* C1: once a rebuild has committed a canvas with K kept pixels, and through
\* every later tick, tick-driven transition and setPhase up to the next
\* rebuild, the store holds K positions, K velocities and K targetIndex
\* entries for K targets, and targetIndex[i] = i.
C1_TargetCount ==
  points # 0 =>
    LET K == KeptPixels(QrCanvas(lastLink))
    IN /\ Size(targets) = K
       /\ DOMAIN positions = 0..(K - 1)
       /\ DOMAIN velocities = 0..(K - 1)
       /\ DOMAIN targetIndexMap = 0..(K - 1)
       /\ \A i \in 0..(K - 1) : targetIndexMap[i] = i

\* C1 witness: two particles, a setPhase and a tick-driven transition after
\* the rebuild.
C1_Witness ==
  /\ points # 0
  /\ Size(targets) = 2
  /\ startPhase = "hold"
  /\ nTrans >= 1

\* C2: a canvas that arrives after dispose() changes neither targets,
\* particle arrays nor phase state, adds no points object to the scene and
\* raises nothing.
C2_DiscardAfterDispose ==
  [][(disposed /\ CanvasArrives) =>
       (UNCHANGED <<store, phase, points, inScene>> /\ ~fault')]_vars

\* C2 witness: a result was discarded while a two-particle store existed.
C2_Witness ==
  /\ lastRebuild = "discarded"
  /\ disposed
  /\ Size(targets) = 2
  /\ points = 1

\* C3: a rebuild whose bitmap production fails leaves targets, particle
\* arrays and phase state as they were.
C3_FailureKeepsState ==
  [][(Cardinality(pending') < Cardinality(pending) /\ lastRebuild' = "failed") =>
       UNCHANGED <<store, phase, points, inScene>>]_vars

\* C3 witness: a rebuild failed with a store in place and the timer running.
C3_Witness ==
  /\ lastRebuild = "failed"
  /\ points # 0
  /\ Size(targets) > 0
  /\ stateTime > 0

\* C4: a frame changes the phase only along wander -> assemble -> hold ->
\* disperse -> wander.
C4_TickTransitions ==
  [][(frames' # frames /\ state' # state) =>
       <<state, state'>> \in {<<"wander", "assemble">>, <<"assemble", "hold">>,
                              <<"hold", "disperse">>, <<"disperse", "wander">>}]_vars

\* C4 witness: four tick-driven transitions in a row, back in the phase the
\* run started from.
C4_Witness ==
  /\ nTrans = 4
  /\ startPhase = "hold"
  /\ state = "hold"

\* The sum of the maximal durations of the four phases.
SumMax == wanderRange[2] + assembleRange[2] + holdSeconds + disperseRange[2]

MaxDuration(p) ==
  CASE p = "wander" -> wanderRange[2]
    [] p = "assemble" -> assembleRange[2]
    [] p = "hold" -> holdSeconds
    [] p = "disperse" -> disperseRange[2]

RECURSIVE PhaseAfter(_, _)
\* The phase k cyclic steps after p.
PhaseAfter(p, k) ==
  IF k = 0 THEN p
  ELSE LET q == PhaseAfter(p, k - 1)
       IN CASE q = "wander" -> "assemble"
            [] q = "assemble" -> "hold"
            [] q = "hold" -> "disperse"
            [] q = "disperse" -> "wander"

RECURSIVE MaxSum(_, _)
\* The maximal durations of p and the k-1 phases after it, summed.
MaxSum(p, k) == IF k = 0 THEN 0 ELSE MaxDuration(PhaseAfter(p, k - 1)) + MaxSum(p, k - 1)

\* C5 as stated: when the clamped tick time since the entry of P equals the
\* sum of the four maximal durations, four transitions have been made and
\* the phase is P again.
C5_Original ==
  acc = SumMax => (nTrans = 4 /\ state = startPhase)

\* C5 amended: the phases are visited in cyclic order, and once the clamped
\* tick time since the entry of P reaches the maximal durations of the first
\* k phases plus k maximal steps, at least k transitions have been made; with
\* k = 4 the cycle has closed on P at least once.
C5_CycleClosure ==
  /\ state = PhaseAfter(startPhase, nTrans % 4)
  /\ \A k \in 1..4 :
       acc >= MaxSum(startPhase, k) + k * DtMax => nTrans >= k

\* C5 witness: the time bound of the whole cycle is reached, the cycle closed.
C5_Witness ==
  /\ acc >= SumMax + 4 * DtMax
  /\ nTrans >= 4
  /\ startPhase = "assemble"

RECURSIVE NormIn(_, _, _)
NormIn(n, lo, hi) ==
  IF lo >= hi THEN lo
  ELSE LET mid == (lo + hi + 1) \div 2
       IN IF mid * mid <= n THEN NormIn(n, mid, hi) ELSE NormIn(n, lo, mid - 1)

\* |v| of a velocity, rounded down.
Norm(v) == NormIn(v[1] * v[1] + v[2] * v[2] + v[3] * v[3], 0, 40000)

\* Two units in the last place of the fixed point at the highest speed.
SpeedTol == (2 * blastSpeedMax) \div PQ

\* C6: the velocity each particle has on entry to disperse, by a frame or by
\* setPhase, has magnitude within [blastSpeedMin, blastSpeedMax], up to the
\* rounding of the arithmetic.
C6_BlastSpeed ==
  \A i \in DOMAIN blast :
     /\ Norm(blast[i]) >= blastSpeedMin - SpeedTol
     /\ Norm(blast[i]) <= blastSpeedMax + SpeedTol

\* C6 witness: two particles blasted by a frame whose timer expired; the
\* frame has dragged them since.
C6_Witness ==
  /\ Size(blast) = 2
  /\ state = "disperse"
  /\ nTrans >= 1
  /\ stateTime = 0
  /\ velocities # blast

\* C7: a frame with a raw delta of 1000 s steps timer and particles as a
\* step of 0.05 s, one with a raw delta of -5 s or 0 as a step of 0.0005 s.
C7_DtClamp ==
  \A sec \in Secs, rs \in Streams :
     /\ animate(1000 * TQ, sec, rs) = tick(TQ \div 20, sec, rs)
     /\ animate(0 - 5 * TQ, sec, rs) = tick(TQ \div 2000, sec, rs)
     /\ animate(0, sec, rs) = tick(TQ \div 2000, sec, rs)

\* C7 witness: frames have run on a store of two particles, and the two ends
\* of the clamp move timer and particles differently.
C7_Witness ==
  /\ Size(positions) = 2
  /\ frames > 0
  /\ tick(100, 0, 0).positions # tick(1, 0, 0).positions
  /\ tick(100, 0, 0).stateTime # tick(1, 0, 0).stateTime

\* C8: dispose() changes neither particle arrays, targets nor phase state and
\* raises nothing; a second dispose() changes nothing at all.
C8_DisposeIdempotent ==
  [][nDispose' # nDispose =>
       /\ UNCHANGED <<store, phase>>
       /\ ~fault'
       /\ disposed'
       /\ (disposed => UNCHANGED <<disposed, points, inScene, pending, lastRebuild, fault>>)]_vars

\* C8 witness: dispose() ran twice on a store of two particles.
C8_Witness ==
  /\ nDispose = 2
  /\ Size(positions) = 2
  /\ stateTime > 0

\* C9: a committed rebuild leaves the machine in wander with elapsed 0 and a
\* duration of the wander range.
C9_RebuildEntersWander ==
  [][points' # points =>
       /\ state' = "wander"
       /\ stateTime' = 0
       /\ stateDuration' >= wanderRange[1]
       /\ stateDuration' <= wanderRange[2]]_vars

\* C9 witness: the second rebuild committed after the particles of the first
\* had been blasted, and nothing has acted since.
C9_Witness ==
  /\ points = 2
  /\ lastRebuild = "ok"
  /\ blast # EmptyArr
  /\ frames > 0
  /\ startPhase = "wander"
  /\ acc = 0
  /\ stateTime = 0

\* C10: targets, positions, velocities and targetIndex always have the same
\* length, all are empty while no store exists, and no handler has read or
\* written outside an array.
C10_StoreConsistent ==
  /\ Size(positions) = Size(targets)
  /\ Size(velocities) = Size(targets)
  /\ Size(targetIndexMap) = Size(targets)
  /\ (points = 0 => Size(targets) = 0)
  /\ ~fault

\* C10 witness: a second rebuild shrank the store to one particle, frames and
\* a dispose around it.
C10_Witness ==
  /\ points = 2
  /\ Size(targets) = 1
  /\ stateTime > 0
  /\ disposed

\* The configured range of the duration of phase p.
DurationRange(p) ==
  CASE p = "wander" -> wanderRange
    [] p = "assemble" -> assembleRange
    [] p = "hold" -> <<holdSeconds, holdSeconds>>
    [] p = "disperse" -> disperseRange

ValidDuration(p, d) == d >= DurationRange(p)[1] /\ d <= DurationRange(p)[2]

\* A step that enters a phase: a frame whose timer expired, a setPhase or a
\* committed rebuild.
PhaseEntry == nTrans' = nTrans + 1 \/ nJumps' # nJumps \/ points' # points

\* C11: every step that enters a phase, by a frame, by setPhase or by a
\* rebuild, leaves elapsed at exactly 0 and the duration within the range of
\* the entered phase (holdSeconds for hold); elapsed >= 0 and duration > 0
\* before and after every step.
C11_ElapsedReset ==
  [][/\ PhaseEntry => (stateTime' = 0 /\ ValidDuration(state', stateDuration'))
     /\ stateTime >= 0 /\ stateDuration > 0
     /\ stateTime' >= 0 /\ stateDuration' > 0]_vars

\* C11 witness: a frame of 0.05 s ended an assemble of at most 0.04 s that
\* setPhase had started on a store of two particles: the overshoot is gone.
C11_Witness ==
  /\ Size(positions) = 2
  /\ startPhase = "assemble"
  /\ nTrans = 1
  /\ acc = DtMax
  /\ state = "hold"
  /\ stateTime = 0

\* C12: right after setPhase(p), from any state, p is the phase, elapsed is
\* 0, the duration is valid for p and, when p is disperse, every particle
\* carries a blast velocity; the frames that follow move on from p in the
\* cyclic order.
C12_SetPhase ==
  nJumps > 0 =>
    /\ state = PhaseAfter(startPhase, nTrans % 4)
    /\ acc = 0 =>
         /\ state = startPhase
         /\ stateTime = 0
         /\ ValidDuration(state, stateDuration)
         /\ startPhase = "disperse" =>
              /\ DOMAIN velocities = 0..(Size(targets) - 1)
              /\ \A i \in DOMAIN velocities :
                   /\ Norm(velocities[i]) >= blastSpeedMin - SpeedTol
                   /\ Norm(velocities[i]) <= blastSpeedMax + SpeedTol

\* C12 witness: setPhase('disperse') on a store of two particles after a
\* frame had run, nothing since.
C12_Witness ==
  /\ nJumps = 1
  /\ acc = 0
  /\ startPhase = "disperse"
  /\ frames > 0
  /\ Size(velocities) = 2

\* C13: a step that commits no rebuild (a frame with or without a
\* transition, a setPhase, a dispose, a request, a failed or discarded
\* rebuild) leaves the target coordinates, the particle count and the
\* targetIndex array as they were.
C13_OnlyRebuildResizes ==
  [][points' = points =>
       /\ UNCHANGED <<targets, targetIndexMap>>
       /\ DOMAIN positions' = DOMAIN positions
       /\ DOMAIN velocities' = DOMAIN velocities]_vars

\* C13 witness: frames with a transition, a setPhase and a dispose have all
\* acted on the two particles of the first rebuild.
C13_Witness ==
  /\ points = 1
  /\ Size(targets) = 2
  /\ nTrans >= 1
  /\ nJumps = 1
  /\ frames = 2
  /\ disposed
  /\ positions # createParticles(targets, 0, 0).positions

\* C14: a rebuild request changes neither targets, particle arrays, phase
\* state, the Points object nor the scene; while a request is pending, a
\* step either commits a rebuild, replacing the store as a whole, or keeps
\* the targets, their count and the targetIndex array.
C14_PendingChangesNothing ==
  [][/\ nReq' # nReq => UNCHANGED <<store, phase, points, inScene, fault>>
     /\ (pending # {} /\ points' = points) =>
          /\ UNCHANGED <<targets, targetIndexMap>>
          /\ Size(positions') = Size(targets)
          /\ Size(velocities') = Size(targets)
     /\ (pending # {} /\ points' # points) =>
          /\ Size(positions') = Size(targets')
          /\ Size(velocities') = Size(targets')
          /\ Size(targetIndexMap') = Size(targets')]_vars

\* C14 witness: setLink was called on a store of two particles in hold, the
\* request is still pending and a frame has moved the particles since the
\* phase was set.
C14_Witness ==
  /\ nReq = 2
  /\ \E req \in pending : req.id = 2
  /\ points = 1
  /\ Size(targets) = 2
  /\ startPhase = "hold"
  /\ acc > 0

\* C15: no handler has raised so far, and in the state reached no frame,
\* whatever its delta and clock, and no setPhase to any of the four phases
\* would raise: before the first rebuild completed, on an empty target set
\* and after dispose() alike.
C15_NoErrors ==
  /\ ~fault
  /\ \A p \in Phases, rs \in Streams :
       ~jumpToState(p, targets, velocities, points # 0, rs, 0).fault
  /\ \A raw \in RawDeltas, sec \in Secs, rs \in Streams :
       ~animate(raw, sec, rs).fault

\* C15 witness: frames and a setPhase('disperse') have run on the store of a
\* canvas without a bright sample, before and after dispose().
C15_Witness ==
  /\ points # 0
  /\ Size(targets) = 0
  /\ disposed
  /\ frames = 2
  /\ stateTime > 0
  /\ startPhase = "disperse"
  /\ nJumps = 1

\* The steps a frame can take: the clamped deltas.
Steps == {Clamp(raw) : raw \in RawDeltas}

\* A step of dt does not expire the timer.
NoTransition(dt) == stateTime + dt < stateDuration

\* C16 as stated: a frame without a transition ends in the same state
\* whatever the wall clock and the random source are, in every phase.
C16_Original ==
  \A dt \in Steps, sec1 \in Secs, sec2 \in Secs, rs1 \in Streams, rs2 \in Streams :
     NoTransition(dt) => tick(dt, sec1, rs1) = tick(dt, sec2, rs2)

\* C16 amended: a frame without a transition ends in the same state whatever
\* the random source is, and whatever the wall clock is in assemble, hold and
\* disperse; in wander it ends in the same state when the clock shows the
\* same whole second.
C16_TickFunction ==
  \A dt \in Steps, sec1 \in Secs, sec2 \in Secs, rs1 \in Streams, rs2 \in Streams :
     (NoTransition(dt) /\ (state # "wander" \/ sec1 = sec2))
       => tick(dt, sec1, rs1) = tick(dt, sec2, rs2)

\* C16 witness: two particles in wander, a frame behind them; the next frame
\* of 0.01 s does not expire the timer, ends alike for two random streams and
\* differently for two seconds of the clock.
C16_Witness ==
  /\ Size(positions) = 2
  /\ state = "wander"
  /\ frames > 0
  /\ NoTransition(20)
  /\ tick(20, 0, 0) = tick(20, 0, 1)
  /\ tick(20, 0, 0) # tick(20, 1, 0)

\* |position - target| of particle i, rounded down.
Dist(i) ==
  LET p == positions[i]
      t == targets[targetIndexMap[i]]
  IN Norm(<<p[1] - t[1], p[2] - t[2], p[3] - t[3]>>)

\* The step is overdamped: (1 + damping - spring * dt^2)^2 >= 4 * damping,
\* in 1/10000.
Overdamped(dt) ==
  LET c == (spring * dt * dt * 10000) \div (TQ * TQ)
      b == 10000 + 100 * damping - c
  IN b * b >= 4 * 100 * damping * 10000

\* The distance below which the fixed point no longer resolves the motion of
\* a step dt: an axis stops moving at TQ^2 (1 - damping) / (spring dt^2), the
\* norm of three axes stays below twice that.
SpringEps(dt) == 2 * ((TQ * TQ * (100 - damping)) \div (100 * spring * dt * dt) + 1)

\* The ticks within which a run of step dt has settled: 9 s of overdamped
\* steps, 5 s of larger ones.
SettleTicks(dt) == IF Overdamped(dt) THEN (9 * TQ) \div dt ELSE (5 * TQ) \div dt

\* C17 as stated: from any initial position and velocity and at any fixed
\* step, the distance to the target never grows from one tick to the next,
\* and is below epsilon after the settling ticks.
C17_Original ==
  [][frames' = frames + 1 =>
       \A i \in DOMAIN positions :
          /\ Dist(i)' <= Dist(i)
          /\ frames' >= SettleTicks(acc' \div frames') =>
               Dist(i)' <= SpringEps(acc' \div frames')]_vars

\* C17 amended: from any initial position and velocity and at either fixed
\* step, the distance to the target is below epsilon after the settling ticks
\* and stays there; for the particle that starts at rest it never grows from
\* one tick to the next when the step is overdamped.
C17_SpringConvergence ==
  [][frames' = frames + 1 =>
       /\ \A i \in DOMAIN positions :
            frames' >= SettleTicks(acc' \div frames') =>
              Dist(i)' <= SpringEps(acc' \div frames')
       /\ Overdamped(acc' \div frames') => Dist(0)' <= Dist(0)]_vars

\* C17 witness: 900 ticks of 0.01 s into a hold, both particles within
\* epsilon of their targets, the kicked one included.
C17_Witness ==
  /\ state = "hold"
  /\ frames >= SettleTicks(TQ \div 100)
  /\ acc = frames * (TQ \div 100)
  /\ \A i \in DOMAIN positions : Dist(i) <= SpringEps(TQ \div 100)
  /\ Size(positions) = 2

\* C18: with jitter 0 the targets a rebuild committed are the points the
\* sampler yields for that canvas under every stream of the random source,
\* and for every canvas any two streams yield the same sequence.
C18_SamplerDeterminism ==
  /\ points # 0 =>
       \A rs \in Streams : targets = sampleQrTargets(QrCanvas(lastLink), rs, 0)
  /\ \A l \in Links, rs1 \in Streams, rs2 \in Streams :
       sampleQrTargets(QrCanvas(l), rs1, 0) = sampleQrTargets(QrCanvas(l), rs2, 0)

\* C18 witness: the second rebuild of a run with jitter 0 committed the two
\* points of canvas `two`, on the grid exactly.
C18_Witness ==
  /\ points = 2
  /\ lastLink = "two"
  /\ targets = (0 :> <<(worldSize * PQ) \div 2, (worldSize * PQ) \div 2, 0>>)
                 @@ (1 :> <<0 - (worldSize * PQ) \div 2, 0 - (worldSize * PQ) \div 2, 0>>)

\* The pixels on the stride grid of canvas c whose r, g and b average at
\* least threshold, each as <<x, y>>.
BrightOnGrid(c) ==
  {xy \in (0..(c.W - 1)) \X (0..(c.H - 1)) :
     /\ xy[1] % sampleStep = 0
     /\ xy[2] % sampleStep = 0
     /\ LET px == c.data[xy[2] * c.W + xy[1]]
        IN px[1] + px[2] + px[3] >= 3 * threshold}

\* The place of pixel xy among those pixels, rows first, columns within a row.
RowMajorRank(c, xy) ==
  Cardinality({q \in BrightOnGrid(c) :
                 q[2] < xy[2] \/ (q[2] = xy[2] /\ q[1] < xy[1])})

\* The world coordinates of pixel xy without jitter: x across worldSize, y
\* downwards across worldSize / aspect.
GridPoint(c, xy) ==
  <<(xy[1] * worldSize * PQ) \div (c.W - 1) - (worldSize * PQ) \div 2,
    (worldSize * c.H * PQ) \div (2 * c.W)
      - (xy[2] * worldSize * c.H * PQ) \div (c.W * (c.H - 1))>>

Abs(n) == IF n < 0 THEN 0 - n ELSE n

\* C19: the committed targets are one point per pixel of the stride grid
\* whose mean of r, g and b is at least threshold, whatever its alpha, none
\* else, in row-major order, each within half the jitter of its pixel's place
\* and at depth 0.
C19_SamplerPoints ==
  points # 0 =>
    LET c == QrCanvas(lastLink)
    IN /\ Size(targets) = Cardinality(BrightOnGrid(c))
       /\ \A xy \in BrightOnGrid(c) :
            LET t == targets[RowMajorRank(c, xy)]
            IN /\ Abs(t[1] - GridPoint(c, xy)[1]) <= jitter \div 2 + 1
               /\ Abs(t[2] - GridPoint(c, xy)[2]) <= jitter \div 2 + 1
               /\ t[3] = 0

\* C19 witness: canvas `two` committed: a white pixel, then one of exactly
\* the threshold with alpha 0; the pixel just below the threshold and the
\* white pixel off the grid left no point.
C19_Witness ==
  /\ points # 0
  /\ lastLink = "two"
  /\ Size(targets) = 2
  /\ targets[0][1] > 0
  /\ targets[1][1] < 0
  /\ QrCanvas(lastLink).data[12] = Edge
  /\ QrCanvas(lastLink).data[15] = Dim
  /\ QrCanvas(lastLink).data[4] = White

\* Every particle of the store has a velocity in vel, each of blast speed.
Blasted(vel) ==
  /\ DOMAIN vel = 0..(Size(targets) - 1)
  /\ \A i \in DOMAIN vel :
       /\ Norm(vel[i]) >= blastSpeedMin - SpeedTol
       /\ Norm(vel[i]) <= blastSpeedMax + SpeedTol

\* C20: a setPhase changes no position, and no velocity unless it enters
\* disperse, where it leaves every particle a blast velocity; in a frame whose
\* timer expires, the velocities handed to the integration step are the old
\* ones unless disperse is entered, where they are blast velocities, and the
\* positions the frame leaves are that step's, taken from the old positions.
C20_BlastOnlySideEffect ==
  [][/\ nJumps' # nJumps =>
          /\ positions' = positions
          /\ state' # "disperse" => velocities' = velocities
          /\ state' = "disperse" => Blasted(velocities')
     /\ \A raw \in RawDeltas, sec \in Secs, rs \in Streams :
          LET r == animate(raw, sec, rs)
          IN r.moved =>
               /\ r.state # "disperse" => r.entry = velocities
               /\ r.state = "disperse" => Blasted(r.entry)
               /\ r.positions = stepParticles(r.state, Clamp(raw), targets, positions,
                                              r.entry, targetIndexMap, points # 0,
                                              sec).positions]_vars

\* C20 witness: setPhase('hold') on two moving particles after a frame,
\* nothing since.
C20_Witness ==
  /\ nJumps = 1
  /\ startPhase = "hold"
  /\ acc = 0
  /\ frames > 0
  /\ Size(velocities) = 2
  /\ velocities[0] # <<0, 0, 0>>
  /\ velocities[1] # <<0, 0, 0>>

\* blastDrag to the power max(1, dt * 60) for the steps a frame takes, in
\* 1/10000: blastDrag itself up to 1/60 s, its cube at 0.05 s.
DragAt(dt) ==
  IF dt * 60 <= TQ THEN blastDrag
  ELSE (((blastDrag * blastDrag) \div 10000) * blastDrag) \div 10000

Scale3(v, f) == <<TDiv(v[1] * f, 10000), TDiv(v[2] * f, 10000), TDiv(v[3] * f, 10000)>>

\* C21: a frame that ends in disperse, having stayed there or entered it,
\* leaves every velocity the one the phase timer handed on times
\* blastDrag^max(1, dt * 60), a factor of at most blastDrag, and every
\* position the old one plus the new velocity times dt; the same with all
\* targets moved to the origin; no speed grows in the step.
C21_DisperseDrag ==
  points # 0 =>
    \A dt \in Steps, sec \in Secs, rs \in Streams :
       LET r == tick(dt, sec, rs)
           moved == stepParticles("disperse", dt, [i \in DOMAIN targets |-> <<0, 0, 0>>],
                                  positions, r.entry, targetIndexMap, TRUE, sec)
       IN r.state = "disperse" =>
            /\ DragAt(dt) <= blastDrag
            /\ DOMAIN r.velocities = DOMAIN velocities
            /\ ~r.moved => r.entry = velocities
            /\ \A i \in DOMAIN velocities :
                 /\ r.velocities[i] = Scale3(r.entry[i], DragAt(dt))
                 /\ r.positions[i] = Add3(positions[i], r.velocities[i], dt)
                 /\ Norm(r.velocities[i]) <= Norm(r.entry[i])
            /\ moved.positions = r.positions
            /\ moved.velocities = r.velocities

\* C21 witness: two blasted particles in disperse, a frame behind them, and a
\* frame of 0.01 s ahead that stays in the phase and slows them.
C21_Witness ==
  /\ state = "disperse"
  /\ Size(velocities) = 2
  /\ frames > 0
  /\ NoTransition(20)
  /\ Norm(velocities[0]) >= blastSpeedMin \div 2
  /\ Norm(tick(20, 0, 0).velocities[0]) < Norm(velocities[0])

\* C22: a frame whose timer expires integrates the particles under the phase
\* it enters: velocities and positions at its end are those of stepParticles
\* for the new phase, run on the old positions and on the velocities the entry
\* left; on entry to disperse these are the blast velocities after one drag
\* step and the old positions moved by them.
C22_TimerBeforeIntegrate ==
  [][(frames' # frames /\ nTrans' = nTrans + 1) =>
       \E dt \in Steps, sec \in Secs :
          LET entry == IF state' = "disperse" THEN blast' ELSE velocities
              stp == stepParticles(state', dt, targets, positions, entry,
                                   targetIndexMap, points # 0, sec)
          IN /\ stateTime + dt >= stateDuration
             /\ velocities' = stp.velocities
             /\ positions' = stp.positions
             /\ (state' = "disperse" /\ points # 0) =>
                  \A i \in DOMAIN velocities :
                     /\ velocities'[i] = Scale3(blast'[i], DragAt(dt))
                     /\ positions'[i] = Add3(positions[i], velocities'[i], dt)]_vars

\* C22 witness: the frame that ended a hold has blasted two particles; they
\* are already slower than the blast left them and the timer is at 0.
C22_Witness ==
  /\ state = "disperse"
  /\ startPhase = "hold"
  /\ nTrans = 1
  /\ stateTime = 0
  /\ Size(blast) = 2
  /\ \A i \in DOMAIN blast : Norm(velocities[i]) < Norm(blast[i])

\* C23: at the end of every frame 0 <= elapsed < duration, and the frame has
\* left the phase as it was or moved it to its successor, once.
C23_ElapsedBelowDuration ==
  [][frames' # frames =>
       /\ stateTime' >= 0
       /\ stateTime' < stateDuration'
       /\ state' = state \/ state' = PhaseAfter(state, 1)
       /\ nTrans' <= nTrans + 1
       /\ state' = state => (nTrans' = nTrans /\ stateTime' > stateTime)]_vars

\* C23 witness: a hold of 0.05 s met by frames of 0.05 s: each frame lands
\* exactly on a duration or beyond one, and three transitions in three
\* frames have followed the setPhase.
C23_Witness ==
  /\ startPhase = "hold"
  /\ nTrans = 3
  /\ acc = 3 * DtMax
  /\ state = "assemble"
  /\ stateTime = 0

\* C24: every canvas that arrives before dispose(), whichever request it
\* answers and whatever is still pending, replaces the store as a whole by
\* the targets sampled from that canvas and the particles created for them,
\* swaps the Points object in the scene, and enters wander at elapsed 0.
C24_OverlappingRebuilds ==
  [][(CanvasArrives /\ ~disposed) =>
       \E req \in pending \ pending', rs \in Streams :
          LET tg == sampleQrTargets(QrCanvas(req.link), rs, jitter)
              ps == createParticles(tg, rs, 2 * Size(tg))
          IN /\ targets' = tg
             /\ positions' = ps.positions
             /\ velocities' = ps.velocities
             /\ targetIndexMap' = ps.targetIndexMap
             /\ points' = points + 1
             /\ inScene' = {points'}
             /\ lastLink' = req.link
             /\ state' = "wander"
             /\ stateTime' = 0]_vars

\* C24 witness: the canvas of the second request has been committed and
\* moved by a frame while the constructor's request is still pending; its
\* result, arriving last, will replace the store.
C24_Witness ==
  /\ pending = {[id |-> 1, link |-> link]}
  /\ nReq = 2
  /\ points = 1
  /\ lastLink = "one"
  /\ Size(targets) = 1
  /\ frames > 0
  /\ ~disposed

\* ------------------------------------------- main.js: the scene switcher
\* Switcher time is counted in half seconds.
SQ == 2

\* transitionDuration = 1.5 seconds
transitionDuration == (3 * SQ) \div 2

\* Object.keys(scenes).map(Number)
sceneIds == <<1, 2, 3, 4, 5, 6>>

scenes == {sceneIds[k] : k \in DOMAIN sceneIds}

\* sceneIds[index], for the 0-based indices of the source
SceneAt(index) == sceneIds[index + 1]

\* sceneIds.indexOf(n)
indexOf(n) ==
  IF n \in scenes THEN (CHOOSE k \in DOMAIN sceneIds : sceneIds[k] = n) - 1 ELSE 0 - 1

\* The bounds of the auto-cycle delay: 10 s and 5 min.
cycleMin == 10 * SQ

cycleMax == 5 * 60 * SQ

\* The clock readings a run goes through.
MaxElapsed == 23

\* The delays drawn by scheduleNextCycle: the shortest, one a little longer
\* and the longest.
Delays == {cycleMin, cycleMin + 3, cycleMax}

\* The time between two frames: half a second, 1.5 s and 4 s.
FrameDeltas == {1, 3, 8}

\* The digit keys; Space is a handler of its own.
Keys == 1..9

\* prepNextScene(sceneId): the bundle built, or null
prepNextScene(sceneId) == IF sceneId \in scenes THEN sceneId ELSE 0

\* A startTransition that starts over while a transition is in progress.
startTransition_NoGuard(toSceneId) ==
  LET b == prepNextScene(toSceneId)
  IN [nextSceneId |-> toSceneId,
      nextBundle |-> b,
      transitioning |-> (transitioning \/ b # 0),
      transitionStart |-> IF b # 0 THEN elapsedTime ELSE transitionStart,
      built |-> (b # 0)]

\* startTransition(toSceneId): the transition state it leaves, and whether
\* a scene was built.
startTransition(toSceneId) ==
  IF transitioning
  THEN [nextSceneId |-> nextSceneId,
        nextBundle |-> nextBundle,
        transitioning |-> transitioning,
        transitionStart |-> transitionStart,
        built |-> FALSE]
  ELSE LET b == prepNextScene(toSceneId)
       IN [nextSceneId |-> toSceneId,
           nextBundle |-> b,
           transitioning |-> (b # 0),
           transitionStart |-> IF b # 0 THEN elapsedTime ELSE transitionStart,
           built |-> (b # 0)]

\* finishTransition(): the active scene and the transition state it leaves.
finishTransition ==
  [activeScene |-> nextBundle,
   nextBundle |-> 0,
   nextSceneId |-> 0,
   transitioning |-> FALSE,
   finished |-> TRUE]

\* animateLoop() called d after the previous frame.
animateLoop(d) ==
  IF ~transitioning \/ (elapsedTime + d) - transitionStart < transitionDuration
  THEN [activeScene |-> activeScene,
        nextBundle |-> nextBundle,
        nextSceneId |-> nextSceneId,
        transitioning |-> transitioning,
        finished |-> FALSE]
  ELSE finishTransition

AnimateLoop(d) ==
  /\ elapsedTime + d <= MaxElapsed
  /\ elapsedTime' = elapsedTime + d
  /\ LET r == animateLoop(d)
     IN /\ activeScene' = r.activeScene
        /\ nextBundle' = r.nextBundle
        /\ nextSceneId' = r.nextSceneId
        /\ transitioning' = r.transitioning
  /\ UNCHANGED <<currentSceneIndex, transitionStart, cycling, cycleTimeout>>

\* The keydown handler for a digit key.
KeyDown(n) ==
  IF n \in scenes
  THEN LET idx == indexOf(n)
           r == startTransition(SceneAt(idx))
       IN /\ cycling' = FALSE
          /\ cycleTimeout' = 0
          /\ nextSceneId' = r.nextSceneId
          /\ nextBundle' = r.nextBundle
          /\ transitioning' = r.transitioning
          /\ transitionStart' = r.transitionStart
          /\ currentSceneIndex' = idx
          /\ UNCHANGED <<activeScene, elapsedTime>>
  ELSE UNCHANGED switcher

\* The keydown handler for Space: stopCycle() or startCycle().
KeySpace ==
  /\ IF cycling
     THEN cycling' = FALSE /\ cycleTimeout' = 0
     ELSE cycling' = TRUE /\ \E delay \in Delays : cycleTimeout' = elapsedTime + delay
  /\ UNCHANGED <<currentSceneIndex, activeScene, transitioning, nextBundle,
                 nextSceneId, transitionStart, elapsedTime>>

\* The callback scheduleNextCycle hands to setTimeout.
CycleTimer ==
  /\ cycleTimeout # 0
  /\ elapsedTime >= cycleTimeout
  /\ LET nextIndex == (currentSceneIndex + 1) % Len(sceneIds)
         r == startTransition(SceneAt(nextIndex))
     IN /\ nextSceneId' = r.nextSceneId
        /\ nextBundle' = r.nextBundle
        /\ transitioning' = r.transitioning
        /\ transitionStart' = r.transitionStart
        /\ currentSceneIndex' = nextIndex
  /\ IF cycling
     THEN \E delay \in Delays : cycleTimeout' = elapsedTime + delay
     ELSE cycleTimeout' = 0
  /\ UNCHANGED <<activeScene, elapsedTime, cycling>>

\* The page with no scene of its own modelled: only the switcher moves.
SwitcherAlone == UNCHANGED <<engine, solids, city, trench>>

InitPage == NoEngine /\ InitSwitcher /\ NoSolids /\ NoCity /\ NoTrench

NextSwitcher ==
  \/ SwitcherAlone /\ \E d \in FrameDeltas : AnimateLoop(d)
  \/ SwitcherAlone /\ \E n \in Keys : KeyDown(n)
  \/ SwitcherAlone /\ KeySpace
  \/ SwitcherAlone /\ CycleTimer

SpecSwitcher == InitPage /\ [][NextSwitcher]_vars

\* C25: currentSceneIndex names the active scene, or during a transition
\* the scene being transitioned to.
C25_IndexNamesScene ==
  SceneAt(currentSceneIndex) = IF transitioning THEN nextSceneId ELSE activeScene

\* A transition to one scene is running or has finished while
\* currentSceneIndex names another scene.
C25_Diverged ==
  /\ ~transitioning
  /\ elapsedTime > 0
  /\ activeScene = 2
  /\ SceneAt(currentSceneIndex) = 3

\* C26: while a transition is in progress nextBundle is non-null and a
\* startTransition call builds nothing and changes nothing, and a frame
\* that runs finishTransition starts with transitioning true and leaves it
\* false with nextBundle null.
C26_Transitions ==
  /\ transitioning => nextBundle # 0
  /\ transitioning =>
       \A n \in Keys :
          LET r == startTransition(n)
          IN /\ ~r.built
             /\ r.nextBundle = nextBundle
             /\ r.nextSceneId = nextSceneId
             /\ r.transitionStart = transitionStart
             /\ r.transitioning
  /\ \A d \in FrameDeltas :
        LET r == animateLoop(d)
        IN r.finished =>
             /\ transitioning
             /\ ~r.transitioning
             /\ r.nextBundle = 0
             /\ r.activeScene = nextBundle

\* C26 witness: a second request arrived during a transition (the index
\* moved on, the transition did not), and the next frame will finish it.
C26_Witness ==
  /\ transitioning
  /\ nextSceneId = 2
  /\ SceneAt(currentSceneIndex) = 5
  /\ animateLoop(3).finished

\* ------------------------------------------- setupCube: the pool of solids
MAX_POOL == 200

MIN_ACTIVE == 1

MAX_ACTIVE == 200

\* POPULATION_PERIOD, in seconds
POPULATION_PERIOD == 60

\* Time of this scene is counted in tenths of a second.
SolidQ == 10

\* The value globalTime runs up to.
MaxGlobalTime == 700

\* The time between two frames: 0.1 s, 1.7 s and 30 s.
SolidDeltas == {1, 17, 300}

\* The pool as the construction loop leaves it: every slot inactive, every
\* mesh hidden.
NewPool == [i \in 1..MAX_POOL |-> [isActive |-> FALSE, visible |-> FALSE]]

\* pool.find(s => !s.isActive): the first inactive slot, or 0
FirstFree(p) ==
  IF \A i \in DOMAIN p : p[i].isActive THEN 0
  ELSE CHOOSE i \in DOMAIN p :
         ~p[i].isActive /\ \A j \in 1..(i - 1) : p[j].isActive

\* activateOne()
activateOne(st) ==
  LET i == FirstFree(st.pool)
  IN IF i = 0 THEN st
     ELSE [st EXCEPT !.pool[i] = [isActive |-> TRUE, visible |-> TRUE],
                     !.active = Append(@, i)]

\* A deactivateOne that leaves the mesh visible.
deactivateOne_KeepVisible(st) ==
  IF Len(st.active) = 0 THEN st
  ELSE LET i == st.active[Len(st.active)]
       IN [st EXCEPT !.active = SubSeq(@, 1, Len(@) - 1),
                     !.pool[i] = [isActive |-> FALSE, visible |-> TRUE]]

\* deactivateOne()
deactivateOne(st) ==
  IF Len(st.active) = 0 THEN st
  ELSE LET i == st.active[Len(st.active)]
       IN [st EXCEPT !.active = SubSeq(@, 1, Len(@) - 1),
                     !.pool[i] = [isActive |-> FALSE, visible |-> FALSE]]

\* One test of `while (active.length < target) activateOne();` with the
\* body it guards.
GrowPass(st, target) ==
  IF Len(st.active) < target THEN activateOne(st) ELSE st

\* k passes of that loop, halved so that the evaluation stays shallow; once
\* the test fails the remaining passes change nothing.
RECURSIVE GrowPasses(_, _, _)
GrowPasses(st, target, k) ==
  IF k = 0 THEN st
  ELSE IF k = 1 THEN GrowPass(st, target)
  ELSE LET h == GrowPasses(st, target, k \div 2)
       IN IF Len(h.active) >= target THEN h
          ELSE GrowPasses(h, target, k - k \div 2)

\* The loop: a pass either lengthens the list or changes nothing, and a
\* pass that changes nothing repeats for ever, so the loop ends iff it has
\* ended within MAX_POOL + 1 passes; otherwise spin is set.
Grow(st, target) ==
  LET r == GrowPasses(st, target, MAX_POOL + 1)
  IN IF Len(r.active) < target THEN [r EXCEPT !.spin = TRUE] ELSE r

\* One test of `while (active.length > target) deactivateOne();` with the
\* body it guards.
ShrinkPass(st, target) ==
  IF Len(st.active) > target THEN deactivateOne(st) ELSE st

RECURSIVE ShrinkPasses(_, _, _)
ShrinkPasses(st, target, k) ==
  IF k = 0 THEN st
  ELSE IF k = 1 THEN ShrinkPass(st, target)
  ELSE LET h == ShrinkPasses(st, target, k \div 2)
       IN IF Len(h.active) <= target THEN h
          ELSE ShrinkPasses(h, target, k - k \div 2)

Shrink(st, target) ==
  LET r == ShrinkPasses(st, target, MAX_POOL + 1)
  IN IF Len(r.active) > target THEN [r EXCEPT !.spin = TRUE] ELSE r

\* ensureActiveCount(target)
ensureActiveCount(target, st) ==
  LET t == Max(MIN_ACTIVE, Min(MAX_ACTIVE, target))
      g == Grow(st, t)
  IN IF g.spin THEN g ELSE Shrink(g, t)

\* desiredCount of animate at globalTime g: the triangle wave between
\* MIN_ACTIVE and MAX_ACTIVE.
desiredCount(g) ==
  LET period == POPULATION_PERIOD * SolidQ
      tm == g % period
  IN MIN_ACTIVE + ((period - Abs(2 * tm - period)) * (MAX_ACTIVE - MIN_ACTIVE)) \div period

SolidsNow == [pool |-> pool, active |-> active, spin |-> spin]

\* setupCube(): the pool, then ensureActiveCount(MIN_ACTIVE).
InitSolids ==
  LET st == ensureActiveCount(MIN_ACTIVE, [pool |-> NewPool, active |-> <<>>, spin |-> FALSE])
  IN /\ pool = st.pool
     /\ active = st.active
     /\ spin = st.spin
     /\ globalTime = 0

\* animate(delta) of setupCube; moving and respawning the active solids
\* touches neither flag nor the active list.
SolidsAnimate(d) ==
  /\ globalTime + d <= MaxGlobalTime
  /\ globalTime' = globalTime + d
  /\ LET st == ensureActiveCount(desiredCount(globalTime + d), SolidsNow)
     IN /\ pool' = st.pool
        /\ active' = st.active
        /\ spin' = st.spin

NextSolids ==
  \E d \in SolidDeltas : SolidsAnimate(d) /\ UNCHANGED <<engine, switcher, city, trench>>

\* The page with the solids set up and nothing else.
InitSolidsAlone == NoEngine /\ InitSwitcher /\ InitSolids /\ NoCity /\ NoTrench

SpecSolids == InitSolidsAlone /\ [][NextSolids]_vars

\* The targets ensureActiveCount is asked for: below, at and above the
\* range, and inside it.
Targets == {0 - 5, 0, 1, 2, 57, 199, 200, 201, 1000}

\* What holds of a pool after ensureActiveCount.
PoolConsistent(st) ==
  /\ ~st.spin
  /\ MIN_ACTIVE <= Len(st.active)
  /\ Len(st.active) <= MAX_ACTIVE
  /\ \A a, b \in DOMAIN st.active : a # b => st.active[a] # st.active[b]
  /\ {st.active[a] : a \in DOMAIN st.active} = {i \in DOMAIN st.pool : st.pool[i].isActive}
  /\ \A i \in DOMAIN st.pool : st.pool[i].visible <=> st.pool[i].isActive

\* C27: after every ensureActiveCount call, of the constructor, of a frame
\* or with any other target, the active list has between MIN_ACTIVE and
\* MAX_ACTIVE entries, holds without duplicates exactly the slots flagged
\* isActive, each mesh is visible iff its slot is active, and neither loop
\* ran without progress.
C27_PoolConsistent ==
  /\ PoolConsistent(SolidsNow)
  /\ Len(active) = desiredCount(globalTime)
  /\ \A target \in Targets :
        LET st == ensureActiveCount(target, SolidsNow)
        IN /\ PoolConsistent(st)
           /\ Len(st.active) = Max(MIN_ACTIVE, Min(MAX_ACTIVE, target))

\* C27 witness: the falling half of the wave, with the pool partly active,
\* so that the targets asked for make both loops run.
C27_Witness ==
  /\ globalTime % (POPULATION_PERIOD * SolidQ) > (POPULATION_PERIOD * SolidQ) \div 2
  /\ Len(active) > 57
  /\ Len(active) < 199
  /\ ~pool[MAX_POOL].isActive

\* ------------------------------------ setupSkyscraper: the grid of buildings
\* The grid, the largest footprint side and the number of placements of the
\* constructor, scaled down from 50, 4 and 10.
divisions == 3

maxCells == 2

total == 2

\* Angles are counted in sixteenths of a turn: Math.PI is HalfTurn.
HalfTurn == 8

FullTurn == 2 * HalfTurn

\* const threshold = Math.PI
cityThreshold == HalfTurn

\* The turn of the group in one frame: delta * 0.2 rad, for frames of about
\* 2 s and 6 s.
CityDeltas == {1, 3}

Cells == (0..(divisions - 1)) \X (0..(divisions - 1))

\* null, where a cell is expected
NoCell == <<0 - 1, 0 - 1>>

\* null, where a building is expected
NoBuilding == [live |-> FALSE, keys |-> {}, angle |-> 0]

\* Math.atan2(z, x) to the nearest sixteenth of a turn: the tangents of
\* 11.25, 33.75, 56.25 and 78.75 degrees are 1/5, 2/3, 3/2 and 5.
Atan2(z, x) ==
  LET a == Abs(x)
      b == Abs(z)
      k == IF a = 0 /\ b = 0 THEN 0
           ELSE IF 5 * b < a THEN 0
           ELSE IF 3 * b < 2 * a THEN 1
           ELSE IF 2 * b < 3 * a THEN 2
           ELSE IF b < 5 * a THEN 3
           ELSE 4
      q == IF x < 0 THEN HalfTurn - k ELSE k
  IN IF z < 0 THEN 0 - q ELSE q

\* Math.atan2(Math.sin(relative), Math.cos(relative)): relative brought
\* into [-pi, pi]; at an odd multiple of pi the rounding of Math.sin decides
\* between pi and -pi.
WrapAngle(relative) ==
  LET m == ((relative % FullTurn) + FullTurn) % FullTurn
  IN IF m < HalfTurn THEN {m}
     ELSE IF m > HalfTurn THEN {m - FullTurn}
     ELSE {HalfTurn, 0 - HalfTurn}

\* pickFreeCellNearAngle: with the angle and the radii drawn at random, any
\* free cell; null once the probes can all meet occupied cells.
Picks(occ) ==
  (Cells \ occ) \cup (IF occ # {} THEN {NoCell} ELSE {})

\* tryAnchor(ai, aj) for a footprint of w by d cells
tryAnchor(ai, aj, w, d, occ) ==
  LET i0 == Max(0, Min(divisions - w, ai - w \div 2))
      j0 == Max(0, Min(divisions - d, aj - d \div 2))
      keys == {<<i0 + di, j0 + dj>> : di \in 0..(w - 1), dj \in 0..(d - 1)}
  IN IF keys \cap occ # {}
     THEN [ok |-> FALSE, i0 |-> i0, j0 |-> j0, keys |-> {}]
     ELSE [ok |-> TRUE, i0 |-> i0, j0 |-> j0, keys |-> keys]

offsets == << <<0, 0>>, <<1, 0>>, <<0 - 1, 0>>, <<0, 1>>, <<0, 0 - 1>>,
             <<1, 1>>, <<0 - 1, 1>>, <<1, 0 - 1>>, <<0 - 1, 0 - 1>>,
             <<2, 0>>, <<0 - 2, 0>>, <<0, 2>>, <<0, 0 - 2>> >>

\* An addSkyscraper that marks the anchor cell alone.
addSkyscraper_MarkAnchor(occ, choice, w, d) ==
  IF choice = NoCell THEN [sk |-> NoBuilding, occupied |-> occ]
  ELSE LET try(k) == tryAnchor(choice[1] + offsets[k][1], choice[2] + offsets[k][2], w, d, occ)
           hits == {k \in DOMAIN offsets : try(k).ok}
       IN IF hits = {} THEN [sk |-> NoBuilding, occupied |-> occ]
          ELSE LET placed == try(CHOOSE k \in hits : \A h \in hits : k <= h)
                   centerX == 2 * placed.i0 + w - divisions
                   centerZ == 2 * placed.j0 + d - divisions
               IN [sk |-> [live |-> TRUE, keys |-> placed.keys,
                           angle |-> Atan2(centerZ, centerX)],
                   occupied |-> occ \cup {<<placed.i0, placed.j0>>}]

\* addSkyscraper, for the cell pickFreeCellNearAngle returned and the
\* footprint drawn: the building or null, and the occupied set it leaves.
\* The centre is counted in half cells from the middle of the plane.
addSkyscraper(occ, choice, w, d) ==
  IF choice = NoCell THEN [sk |-> NoBuilding, occupied |-> occ]
  ELSE LET try(k) == tryAnchor(choice[1] + offsets[k][1], choice[2] + offsets[k][2], w, d, occ)
           hits == {k \in DOMAIN offsets : try(k).ok}
       IN IF hits = {} THEN [sk |-> NoBuilding, occupied |-> occ]
          ELSE LET placed == try(CHOOSE k \in hits : \A h \in hits : k <= h)
                   centerX == 2 * placed.i0 + w - divisions
                   centerZ == 2 * placed.j0 + d - divisions
               IN [sk |-> [live |-> TRUE, keys |-> placed.keys,
                           angle |-> Atan2(centerZ, centerX)],
                   occupied |-> occ \cup placed.keys]

\* The outcomes of one addSkyscraper call, over what it draws.
Added(occ) ==
  {addSkyscraper(occ, c, w, d) : c \in Picks(occ), w \in 1..maxCells, d \in 1..maxCells}

\* The constructor's loop after n calls: only the buildings placed are
\* pushed.
RECURSIVE Placements(_)
Placements(n) ==
  IF n = 0 THEN {[occupied |-> {}, skyscrapers |-> <<>>, recycled |-> {}]}
  ELSE UNION {{[occupied |-> r.occupied,
                skyscrapers |-> IF r.sk.live THEN Append(st.skyscrapers, r.sk)
                                ELSE st.skyscrapers,
                recycled |-> {}] : r \in Added(st.occupied)}
              : st \in Placements(n - 1)}

\* The body of the branch of animate for slot i: the cells freed, the group
\* removed, and the slot given what addSkyscraper returns.
Respawns(i, st) ==
  LET freed == st.occupied \ st.skyscrapers[i].keys
  IN {[occupied |-> r.occupied,
       skyscrapers |-> [st.skyscrapers EXCEPT ![i] = r.sk],
       recycled |-> st.recycled \cup {i}] : r \in Added(freed)}

\* if (angle < -threshold)
Behind(sk, viewAngle) ==
  \E angle \in WrapAngle(sk.angle - viewAngle) : angle < 0 - cityThreshold

\* The loop of animate from slot i on.
RECURSIVE RecycleFrom(_, _, _)
RecycleFrom(i, st, viewAngle) ==
  IF i > Len(st.skyscrapers) THEN {st}
  ELSE IF ~st.skyscrapers[i].live \/ ~Behind(st.skyscrapers[i], viewAngle)
  THEN RecycleFrom(i + 1, st, viewAngle)
  ELSE UNION {RecycleFrom(i + 1, r, viewAngle) : r \in Respawns(i, st)}

CityNow == [occupied |-> occupied, skyscrapers |-> skyscrapers, recycled |-> recycled]

InitCity ==
  /\ rotationY = 0
  /\ \E st \in Placements(total) :
        /\ occupied = st.occupied
        /\ skyscrapers = st.skyscrapers
        /\ recycled = st.recycled

\* animate(delta) of setupSkyscraper; the planets are not modelled.
CityAnimate(d) ==
  /\ rotationY' = (rotationY + d) % FullTurn
  /\ \E st \in RecycleFrom(1, CityNow, rotationY + d) :
        /\ occupied' = st.occupied
        /\ skyscrapers' = st.skyscrapers
        /\ recycled' = st.recycled

NextCity ==
  \E d \in CityDeltas : CityAnimate(d) /\ UNCHANGED <<engine, switcher, solids, trench>>

\* The page with the city set up and nothing else. The frames keep coming:
\* animateLoop asks for the next one each time.
InitCityAlone == NoEngine /\ InitSwitcher /\ NoSolids /\ InitCity /\ NoTrench

SpecCity == InitCityAlone /\ [][NextCity]_vars /\ WF_vars(NextCity)

\* No cell in two footprints, and the occupied set is the union of the
\* footprints of the buildings in the list.
GridConsistent(st) ==
  /\ \A a, b \in DOMAIN st.skyscrapers :
        a # b => st.skyscrapers[a].keys \cap st.skyscrapers[b].keys = {}
  /\ st.occupied = UNION {st.skyscrapers[a].keys : a \in DOMAIN st.skyscrapers}
  /\ \A a \in DOMAIN st.skyscrapers :
        /\ st.skyscrapers[a].keys \subseteq Cells
        /\ st.skyscrapers[a].live <=> st.skyscrapers[a].keys # {}

\* C28: after the initial placement and after any frames, no cell belongs
\* to two buildings and the occupied set is the union of the footprints;
\* the same holds after the despawn and respawn of any slot, whether the
\* new placement succeeds or fails.
C28_GridConsistent ==
  /\ GridConsistent(CityNow)
  /\ \A i \in DOMAIN skyscrapers :
        skyscrapers[i].live => \A st \in Respawns(i, CityNow) : GridConsistent(st)

\* C28 witness: the group has turned, one placement of the constructor has
\* failed, and the building placed covers four cells.
C28_Witness ==
  /\ rotationY # 0
  /\ Len(skyscrapers) = 1
  /\ Cardinality(occupied) = 4

\* C29: every building is eventually despawned.
C29_Recycling ==
  \A i \in 1..total :
     (i \in DOMAIN skyscrapers /\ skyscrapers[i].live) ~> (i \in recycled)

\* A building has gone through every bearing and was never despawned.
C29_NeverRecycled ==
  /\ Len(skyscrapers) = total
  /\ rotationY = FullTurn - 1
  /\ recycled = {}

\* ------------------------------------------- setupCorridor: the trench
SEG_LEN == 6

\* The number of segments, scaled down from 90.
NUM_SEGS == 4

SPEED == 18

\* Time of this scene is counted in eighteenths of a second, so that the
\* camera moves whole units.
TrenchQ == 18

\* camera.position.set(0, 1.2, 6)
camStart == 6

\* if (s.position.z > camZ + 10)
recycleMargin == 10

\* How far the camera travels.
MaxTravel == 60

\* The time between two frames: 1/18 s, 1/6 s, 1/3 s, 2/3 s and 1.5 s.
TrenchDeltas == {1, 3, 6, 12, 27}

\* The minimum and the maximum of the z positions
frontMostZ(segs) == CHOOSE z \in {segs[i] : i \in DOMAIN segs} : \A i \in DOMAIN segs : z <= segs[i]

backMostZ(segs) == CHOOSE z \in {segs[i] : i \in DOMAIN segs} : \A i \in DOMAIN segs : z >= segs[i]

\* recycleSegments(): frontMostZ is read once, before the loop.
recycleSegments(segs, cam) ==
  LET front == frontMostZ(segs)
  IN [i \in DOMAIN segs |->
        IF segs[i] > cam + recycleMargin THEN front - SEG_LEN ELSE segs[i]]

\* setupCorridor(): makeSegment(-i * SEG_LEN, i) for each i
InitTrench ==
  /\ segments = [i \in 1..NUM_SEGS |-> 0 - (i - 1) * SEG_LEN]
  /\ camZ = camStart

\* animate(delta) of setupCorridor; the lateral layout and the camera
\* shake leave position.z alone.
TrenchAnimate(d) ==
  /\ camZ - (SPEED * d) \div TrenchQ >= 0 - MaxTravel
  /\ camZ' = camZ - (SPEED * d) \div TrenchQ
  /\ segments' = recycleSegments(segments, camZ - (SPEED * d) \div TrenchQ)

NextTrench ==
  \E d \in TrenchDeltas : TrenchAnimate(d) /\ UNCHANGED <<engine, switcher, solids, city>>

\* The page with the trench set up and nothing else.
InitTrenchAlone == NoEngine /\ InitSwitcher /\ NoSolids /\ NoCity /\ InitTrench

SpecTrench == InitTrenchAlone /\ [][NextTrench]_vars

\* C30: the segments lie at pairwise distinct z positions that form one
\* run spaced SEG_LEN apart.
C30_TrenchContiguous ==
  /\ \A a, b \in DOMAIN segments : a # b => segments[a] # segments[b]
  /\ \A a \in DOMAIN segments : (backMostZ(segments) - segments[a]) % SEG_LEN = 0
  /\ backMostZ(segments) - frontMostZ(segments) = (NUM_SEGS - 1) * SEG_LEN

\* Two segments passed the camera in one frame of 1.5 s and were put at the
\* same z.
C30_Stacked ==
  /\ camZ = camStart - 27
  /\ segments[1] = segments[2]
  /\ segments[1] = frontMostZ(segments)

====
